---- MODULE Spec2Model ----
(***************************************************************************)
(* A model of the batch bot of src/fullbatch.py: the script parser, the    *)
(* per-conversation selection session driven by inline buttons, and the    *)
(* download/upload pipeline task, with every handler and task suspended    *)
(* at its platform calls (await) so that other handlers may run there.     *)
(***************************************************************************)
EXTENDS Integers, Sequences, FiniteSets, TLC

(***************************************************************************)
(* Bounds of the model.                                                    *)
(***************************************************************************)
\* session dicts created by handle_script in one process lifetime
MaxSessions == 2
\* process_downloads tasks created in one process lifetime
MaxTasks == 2
\* handler coroutines suspended at an await at the same time
MaxHandlers == 2
\* lectures of the first chapter of the two-subject script
MaxLectures == 2
\* the longest script text fed line by line to the loop of parse_file
MaxLines == 7
\* pipelines that call get_default_thumb in one process lifetime
MaxCallers == 3
\* the last reading of the clock, in seconds since the process started
MaxTime == 12

\* conversations (chat ids)
Chats == {"c1", "c2"}

\* the conversations whose operator is active in the behaviours of Spec;
\* the registries are keyed by chat, so one conversation shows every
\* behaviour of a session and its pipeline
ActiveChats == {"c1"}

\* the resolution buttons offered (a subset of the six of the keyboard)
Resolutions == {"360", "720"}

\* the decimal digits, and the text str(n) of a one-digit number
Digits == <<"0", "1", "2", "3", "4", "5", "6", "7", "8", "9">>

Numeral(n) == <<Digits[n + 1]>>

\* texts (sequences of characters) the operator types as a custom start
\* index: a word, a negative number, and the numbers up to one past the
\* last lecture
CustomTexts ==
  {<<"a", "b", "c">>, <<"-", "1">>}
    \cup {Numeral(n) : n \in 0..(MaxLectures + 1)}

(***************************************************************************)
(* Small helpers.                                                          *)
(***************************************************************************)
Range(s) == {s[i] : i \in DOMAIN s}

\* all orders in which the elements of a finite set can be listed
Perms(S) == {p \in [1..Cardinality(S) -> S] : Range(p) = S}

Max(a, b) == IF a >= b THEN a ELSE b

(***************************************************************************)
(* Script text.  A line is abstracted to the pattern of parse_file it      *)
(* matches; labels are numbers ordered as the label strings sort.          *)
(***************************************************************************)
SubjLine(n)   == [kind |-> "subject", name |-> n, val |-> 0, url |-> 0]
ChapLine(n)   == [kind |-> "chapter", name |-> n, val |-> 0, url |-> 0]
SetLine(k, v) == [kind |-> "set", name |-> k, val |-> v, url |-> 0]
UrlLine(u)    == [kind |-> "m3u8", name |-> "", val |-> 0, url |-> u]
OtherLine     == [kind |-> "other", name |-> "", val |-> 0, url |-> 0]

Scripts == {"two", "one", "empty"}

\* uploads that are not scripts: a document of another type, and a file
\* whose name ends in txt without the dot
OtherFiles == {"pdf", "bare"}

\* doc.file_name of an upload, as a sequence of characters
FileName(s) ==
  CASE s = "one"   -> <<"o", "n", "e", ".", "b", "a", "t">>
    [] s = "two"   -> <<"t", "w", "o", ".", "T", "X", "T">>
    [] s = "empty" -> <<"e", ".", "t", "x", "t">>
    [] s = "pdf"   -> <<"n", ".", "p", "d", "f">>
    [] OTHER       -> <<"t", "x", "t">>

\* str.lower() on the characters of the file names
Lower(ch) ==
  CASE ch = "T" -> "t"
    [] ch = "X" -> "x"
    [] OTHER    -> ch

EndsWith(name, suffix) ==
  /\ Len(name) >= Len(suffix)
  /\ SubSeq(name, Len(name) - Len(suffix) + 1, Len(name)) = suffix

\* line 227: filename.lower().endswith((".bat", ".txt"))
AcceptedName(name) ==
  LET low == [i \in DOMAIN name |-> Lower(name[i])] IN
  \/ EndsWith(low, <<".", "b", "a", "t">>)
  \/ EndsWith(low, <<".", "t", "x", "t">>)

\* the lines of n lectures, labels descending from n, urls numbered from u
RECURSIVE LectureLines(_, _)
LectureLines(n, u) ==
  IF n = 0 THEN <<>>
  ELSE <<SetLine("lecture", n), UrlLine(u)>> \o LectureLines(n - 1, u + 1)

\* urls are numbered; 0 stands for no url
ScriptText(s) ==
  IF s = "one"
  THEN << SubjLine("Physics"), ChapLine("Chapter 01"),
          SetLine("lecture", 1), UrlLine(1) >>
  ELSE IF s = "two"
  THEN << SubjLine("Physics"), ChapLine("Chapter 01") >>
         \o LectureLines(MaxLectures, 1)
         \o << SubjLine("Maths"), ChapLine("Intro"),
               SetLine("dpp_video", 1), UrlLine(MaxLectures + 1) >>
  ELSE << OtherLine, SetLine("lecture", 1), UrlLine(9) >>

(***************************************************************************)
(* parse_file: the catalogue is an insertion-ordered list of subjects,     *)
(* each an insertion-ordered list of chapters with two item lists.         *)
(***************************************************************************)
IndexOfName(seq, n) ==
  IF \E i \in DOMAIN seq : seq[i].name = n
  THEN CHOOSE i \in DOMAIN seq : seq[i].name = n
  ELSE 0

NewChapter(n) == [name |-> n, Lectures |-> <<>>, DPP |-> <<>>]

AddToChapter(ch, cat, item) ==
  IF cat = "Lectures"
  THEN [ch EXCEPT !.Lectures = Append(@, item)]
  ELSE [ch EXCEPT !.DPP = Append(@, item)]

AddToChapters(chs, chap, cat, item) ==
  LET i == IndexOfName(chs, chap) IN
  IF i = 0
  THEN Append(chs, AddToChapter(NewChapter(chap), cat, item))
  ELSE [chs EXCEPT ![i] = AddToChapter(@, cat, item)]

\* data[subject][chapter][cat].append(item) on the nested defaultdict
AddItem(data, subj, chap, cat, item) ==
  LET i == IndexOfName(data, subj) IN
  IF i = 0
  THEN Append(data, [name |-> subj,
                     chapters |-> AddToChapters(<<>>, chap, cat, item)])
  ELSE [data EXCEPT ![i].chapters = AddToChapters(@, chap, cat, item)]

ParseInit ==
  [data |-> <<>>, current_subject |-> "", current_chapter |-> "",
   last_lecture |-> 0, last_dpp_video |-> 0]

\* a loop whose subject marker leaves the current chapter in place
ParseLineKeepsChapter(st, line) ==
  IF line.kind = "subject"
  THEN [st EXCEPT !.current_subject = line.name]
  ELSE IF line.kind = "chapter"
  THEN [st EXCEPT !.current_chapter = line.name]
  ELSE IF line.kind = "set"
  THEN IF line.name = "lecture"
       THEN [st EXCEPT !.last_lecture = line.val]
       ELSE IF line.name = "dpp_video"
       THEN [st EXCEPT !.last_dpp_video = line.val]
       ELSE st
  ELSE IF line.kind = "m3u8"
  THEN IF st.last_lecture # 0 /\ st.current_subject # ""
            /\ st.current_chapter # ""
       THEN [st EXCEPT
               !.data = AddItem(@, st.current_subject, st.current_chapter,
                                "Lectures", <<st.last_lecture, line.url>>),
               !.last_lecture = 0]
       ELSE IF st.last_dpp_video # 0 /\ st.current_subject # ""
                 /\ st.current_chapter # ""
       THEN [st EXCEPT
               !.data = AddItem(@, st.current_subject, st.current_chapter,
                                "DPP Videos", <<st.last_dpp_video, line.url>>),
               !.last_dpp_video = 0]
       ELSE st
  ELSE st

\* a loop that leaves the lecture label pending after it was used
ParseLineKeepsLabel(st, line) ==
  IF line.kind = "subject"
  THEN [st EXCEPT !.current_subject = line.name, !.current_chapter = ""]
  ELSE IF line.kind = "chapter"
  THEN [st EXCEPT !.current_chapter = line.name]
  ELSE IF line.kind = "set"
  THEN IF line.name = "lecture"
       THEN [st EXCEPT !.last_lecture = line.val]
       ELSE IF line.name = "dpp_video"
       THEN [st EXCEPT !.last_dpp_video = line.val]
       ELSE st
  ELSE IF line.kind = "m3u8"
  THEN IF st.last_lecture # 0 /\ st.current_subject # ""
            /\ st.current_chapter # ""
       THEN [st EXCEPT
               !.data = AddItem(@, st.current_subject, st.current_chapter,
                                "Lectures", <<st.last_lecture, line.url>>)]
       ELSE IF st.last_dpp_video # 0 /\ st.current_subject # ""
                 /\ st.current_chapter # ""
       THEN [st EXCEPT
               !.data = AddItem(@, st.current_subject, st.current_chapter,
                                "DPP Videos", <<st.last_dpp_video, line.url>>),
               !.last_dpp_video = 0]
       ELSE st
  ELSE st

\* a loop whose chapter marker drops the pending labels
ParseLineMarkerClears(st, line) ==
  IF line.kind = "subject"
  THEN [st EXCEPT !.current_subject = line.name, !.current_chapter = ""]
  ELSE IF line.kind = "chapter"
  THEN [st EXCEPT !.current_chapter = line.name, !.last_lecture = 0,
                  !.last_dpp_video = 0]
  ELSE IF line.kind = "set"
  THEN IF line.name = "lecture"
       THEN [st EXCEPT !.last_lecture = line.val]
       ELSE IF line.name = "dpp_video"
       THEN [st EXCEPT !.last_dpp_video = line.val]
       ELSE st
  ELSE IF line.kind = "m3u8"
  THEN IF st.last_lecture # 0 /\ st.current_subject # ""
            /\ st.current_chapter # ""
       THEN [st EXCEPT
               !.data = AddItem(@, st.current_subject, st.current_chapter,
                                "Lectures", <<st.last_lecture, line.url>>),
               !.last_lecture = 0]
       ELSE IF st.last_dpp_video # 0 /\ st.current_subject # ""
                 /\ st.current_chapter # ""
       THEN [st EXCEPT
               !.data = AddItem(@, st.current_subject, st.current_chapter,
                                "DPP Videos", <<st.last_dpp_video, line.url>>),
               !.last_dpp_video = 0]
       ELSE st
  ELSE st

\* lines 79-102: the body of the loop for one line
ParseLine(st, line) ==
  IF line.kind = "subject"
  THEN [st EXCEPT !.current_subject = line.name, !.current_chapter = ""]
  ELSE IF line.kind = "chapter"
  THEN [st EXCEPT !.current_chapter = line.name]
  ELSE IF line.kind = "set"
  THEN IF line.name = "lecture"
       THEN [st EXCEPT !.last_lecture = line.val]
       ELSE IF line.name = "dpp_video"
       THEN [st EXCEPT !.last_dpp_video = line.val]
       ELSE st
  ELSE IF line.kind = "m3u8"
  THEN IF st.last_lecture # 0 /\ st.current_subject # ""
            /\ st.current_chapter # ""
       THEN [st EXCEPT
               !.data = AddItem(@, st.current_subject, st.current_chapter,
                                "Lectures", <<st.last_lecture, line.url>>),
               !.last_lecture = 0]
       ELSE IF st.last_dpp_video # 0 /\ st.current_subject # ""
                 /\ st.current_chapter # ""
       THEN [st EXCEPT
               !.data = AddItem(@, st.current_subject, st.current_chapter,
                                "DPP Videos", <<st.last_dpp_video, line.url>>),
               !.last_dpp_video = 0]
       ELSE st
  ELSE st

RECURSIVE ParseLines(_, _)
ParseLines(st, lines) ==
  IF lines = <<>> THEN st
  ELSE ParseLines(ParseLine(st, Head(lines)), Tail(lines))

\* a parser whose pending lecture label is left over from an earlier call
parse_file_stale(text) ==
  ParseLines([ParseInit EXCEPT !.last_lecture = 1], text).data

\* lines 68-73, 103: fresh locals, the loop, the catalogue
parse_file(text) == ParseLines(ParseInit, text).data

\* list(data.keys())
SubjectNames(data) == [i \in DOMAIN data |-> data[i].name]


(***************************************************************************)
(* Program state.                                                          *)
(***************************************************************************)
VARIABLES
  user_state,      \* the session registry: chat -> session dict (0: no entry)
  download_tasks,  \* the task registry: chat -> task (0: no entry)
  sessions,        \* the session dicts created so far, by identity
  tasks,           \* the process_downloads tasks created so far
  handlers,        \* the handler coroutines suspended at an await
  parse,           \* a call of parse_file: the lines read and its locals
  thumb,           \* the default thumbnail file and the calls that fetch it
  progress,        \* the clock, utils.timer and the progress_bar calls
  files            \* the working directory and the item each pipeline is at

vars ==
  <<user_state, download_tasks, sessions, tasks, handlers, parse, thumb,
    progress, files>>

EmptyDict == [s \in {} |-> 0]

DictSet(d, k, v) == [s \in (DOMAIN d) \cup {k} |-> IF s = k THEN v ELSE d[s]]

\* state = {}; batch_name, stage and cancel are set before the first await;
\* picked is not a key of the dict: while the session is in the selection
\* stage it records the selected subjects in the order in which the
\* operator's presses selected them
NewSession(c, script) ==
  [chat |-> c, batch_name |-> script, stage |-> "inspect", cancel |-> FALSE,
   data |-> <<>>, subject_list |-> <<>>, selected_subjects |-> {},
   subjects_iter |-> <<>>, start_indexes |-> EmptyDict, resolution |-> "",
   picked |-> <<>>]

\* a dict no registry entry, handler or task refers to any more
FreedSession ==
  [chat |-> "", batch_name |-> "", stage |-> "freed", cancel |-> FALSE,
   data |-> <<>>, subject_list |-> <<>>, selected_subjects |-> {},
   subjects_iter |-> <<>>, start_indexes |-> EmptyDict, resolution |-> "",
   picked |-> <<>>]

NoHandler ==
  [kind |-> "none", chat |-> "", sid |-> 0, pc |-> "", subjects |-> <<>>,
   cur |-> "", detached |-> FALSE, resp |-> <<>>]

\* a handler coroutine of kind k for chat c holding the dict sid, suspended
\* at pc; subjects is its local list (proceed: subjects; startidx: subj_iter
\* once state["subjects_iter"] has been rebound to another list), cur its
\* current_subj, resp the text of the message bot.listen returned
Handler(k, c, sid, pc) ==
  [kind |-> k, chat |-> c, sid |-> sid, pc |-> pc, subjects |-> <<>>,
   cur |-> "", detached |-> FALSE, resp |-> <<>>]

HandlerIds == 1..MaxHandlers

\* a new coroutine takes the first free frame
FreeSlot(h) ==
  /\ handlers[h].kind = "none"
  /\ \A g \in HandlerIds : g < h => handlers[g].kind # "none"

\* asyncio.create_task(process_downloads(cq.message, state))
NewTask(c, sid) ==
  [chat |-> c, sid |-> sid, pc |-> "start", subjects |-> <<>>, si |-> 0,
   to_process |-> <<>>, ii |-> 0, count |-> 0, total_uploaded |-> 0,
   exc |-> "", res |-> "", own_idx |-> FALSE, start_indexes |-> EmptyDict,
   start_idx |-> 0]

\* a coroutine that has ended: how is "returned", "cancelled" (it returned
\* on CancelledError) or "raised" (an exception left it)
DoneTask(how) ==
  [chat |-> "", sid |-> 0, pc |-> "done", subjects |-> <<>>, si |-> 0,
   to_process |-> <<>>, ii |-> 0, count |-> 0, total_uploaded |-> 0,
   exc |-> how, res |-> "", own_idx |-> FALSE, start_indexes |-> EmptyDict,
   start_idx |-> 0]

\* the callers of get_default_thumb
Callers == 1..MaxCallers

\* /tmp/default_thumb.jpg does not exist and no call has begun; got is the
\* condition of the file at the moment a call returned its path
ThumbInit ==
  [file |-> "missing",
   pc |-> [k \in Callers |-> "idle"],
   got |-> [k \in Callers |-> ""],
   fetches |-> 0]

\* utils.py line 72: timer = Timer(time_between=3)
TimeBetween == 3

\* the module was imported at time 0 (Timer.__init__ reads the clock); no
\* progress_bar call is in flight; emits counts the edits requested and
\* last_emit is the time of the latest one; final tells what became of the
\* latest call made for the "finished" status of a download
ProgressInit ==
  [now |-> 0,
   start_time |-> 0,
   pc |-> [c \in Chats |-> "idle"],
   exc |-> [c \in Chats |-> ""],
   wake |-> [c \in Chats |-> 0],
   emits |-> 0,
   last_emit |-> 0,
   final |-> [c \in Chats |-> ""]]

\* the display names of the items the pipelines transfer
ItemNames == {"CH 01 1", "CH 01 2"}

\* fullbatch.py line 435 and core.py line 203: the file yt-dlp writes for
\* an item (count and name alone make the file name)
DownloadPath(name) == <<"001_", name, ".mp4">>

\* core.py line 312: upload_path = f"{display_name}.mp4"
UploadPath(name) == <<name, ".mp4">>

WorkPaths ==
  {DownloadPath(n) : n \in ItemNames} \cup {UploadPath(n) : n \in ItemNames}

\* an empty working directory; disk gives, for a path, the conversation
\* whose download the file holds; uploaded is the content a conversation
\* last sent
FilesInit ==
  [disk |-> [path \in WorkPaths |-> "none"],
   pc |-> [c \in Chats |-> "idle"],
   name |-> [c \in Chats |-> ""],
   uploaded |-> [c \in Chats |-> "none"]]

Init ==
  /\ user_state = [c \in Chats |-> 0]
  /\ download_tasks = [c \in Chats |-> 0]
  /\ sessions = <<>>
  /\ tasks = <<>>
  /\ handlers = [h \in HandlerIds |-> NoHandler]
  /\ parse = [lines |-> <<>>, st |-> ParseInit]
  /\ thumb = ThumbInit
  /\ progress = ProgressInit
  /\ files = FilesInit

\* the dict sid is still referred to by the registry, a handler or a task
Referenced(sid, us, ts, hs) ==
  \/ \E c \in Chats : us[c] = sid
  \/ \E t \in DOMAIN ts : ts[t].sid = sid
  \/ \E h \in HandlerIds : hs[h].sid = sid

\* the step's new values; an unreferenced dict is reclaimed
Commit(us, dt, ss, ts, hs) ==
  /\ user_state' = us
  /\ download_tasks' = dt
  /\ sessions' = [i \in DOMAIN ss |->
                    IF Referenced(i, us, ts, hs) THEN ss[i]
                    ELSE FreedSession]
  /\ tasks' = ts
  /\ handlers' = hs
  /\ parse' = parse
  /\ thumb' = thumb
  /\ progress' = progress
  /\ files' = files

(***************************************************************************)
(* handle_script.                                                          *)
(***************************************************************************)
\* a rejection that also drops the registry entry of the conversation
HandleScriptRejectedClears(c, file, h) ==
  /\ FreeSlot(h)
  /\ ~ AcceptedName(FileName(file))
  /\ Commit([user_state EXCEPT ![c] = 0], download_tasks, sessions, tasks,
            [handlers EXCEPT ![h] = Handler("reject", c, 0, "reply")])

\* lines 225-229: the name has no accepted extension; the handler waits for
\* the reply_text of the rejection
HandleScriptRejected(c, file, h) ==
  /\ FreeSlot(h)
  /\ ~ AcceptedName(FileName(file))
  /\ Commit(user_state, download_tasks, sessions, tasks,
            [handlers EXCEPT ![h] = Handler("reject", c, 0, "reply")])

\* lines 228-229: the reply returns or raises, and the handler ends
HandleScriptRejectedFinish(h) ==
  /\ handlers[h].kind = "reject"
  /\ Commit(user_state, download_tasks, sessions, tasks,
            [handlers EXCEPT ![h] = NoHandler])

\* lines 225-237: the new dict replaces the registry entry, then the
\* handler waits for reply_text, download_media and the later calls
HandleScriptBegin(c, script, h, ns) ==
  /\ FreeSlot(h)
  /\ AcceptedName(FileName(script))
  /\ Len(sessions) < ns
  /\ Commit([user_state EXCEPT ![c] = Len(sessions) + 1],
            download_tasks,
            Append(sessions, NewSession(c, script)),
            tasks,
            [handlers EXCEPT
               ![h] = Handler("script", c, Len(sessions) + 1, "inspect")])

\* a handler without the test of line 240: an empty catalogue goes on to the
\* selection stage
HandleScriptFinishUnchecked(h, outcome) ==
  /\ handlers[h].kind = "script"
  /\ LET sid == handlers[h].sid
         data == parse_file(ScriptText(sessions[sid].batch_name))
     IN  Commit(user_state, download_tasks,
                IF outcome = "ok"
                THEN [sessions EXCEPT
                        ![sid].data = data,
                        ![sid].subject_list = SubjectNames(data),
                        ![sid].selected_subjects = {},
                        ![sid].stage = "select_subjects"]
                ELSE sessions,
                tasks,
                [handlers EXCEPT ![h] = NoHandler])

\* lines 238-258: the calls return (parse, then the keyboard) or one raises
HandleScriptFinish(h, outcome) ==
  /\ handlers[h].kind = "script"
  /\ LET sid == handlers[h].sid
         data == parse_file(ScriptText(sessions[sid].batch_name))
     IN  Commit(user_state, download_tasks,
                IF outcome = "ok" /\ data # <<>>
                THEN [sessions EXCEPT
                        ![sid].data = data,
                        ![sid].subject_list = SubjectNames(data),
                        ![sid].selected_subjects = {},
                        ![sid].stage = "select_subjects"]
                ELSE sessions,
                tasks,
                [handlers EXCEPT ![h] = NoHandler])

(***************************************************************************)
(* handle_button.                                                          *)
(***************************************************************************)
\* state = user_state.get(chat_id) is a dict and its stage is st
InStage(c, st) ==
  /\ user_state[c] # 0
  /\ sessions[user_state[c]].stage = st

\* lines 277-287: toggle_<idx>
ToggleOne(sel, subject) ==
  IF subject \in sel THEN sel \ {subject} ELSE sel \cup {subject}

\* the items of the list seq that are in the set S, in the order of seq
Restrict(seq, S) ==
  LET In(x) == x \in S IN SelectSeq(seq, In)

\* the order of selection after the presses have made the selection sel:
\* unselected subjects leave, newly selected ones follow in catalogue order
PickedAfter(picked, sel, subject_list) ==
  Restrict(picked, sel) \o Restrict(subject_list, sel \ Range(picked))

ToggleSubject(c, idx) ==
  /\ InStage(c, "select_subjects")
  /\ LET sid == user_state[c] IN
     /\ idx \in DOMAIN sessions[sid].subject_list
     /\ Commit(user_state, download_tasks,
               LET sel == ToggleOne(sessions[sid].selected_subjects,
                                    sessions[sid].subject_list[idx])
               IN  [sessions EXCEPT
                      ![sid].selected_subjects = sel,
                      ![sid].picked =
                        PickedAfter(@, sel, sessions[sid].subject_list)],
               tasks, handlers)

\* a toggle_all that always selects every subject
ToggleAllSelFill(subs, sel) == Range(subs)

\* lines 288-295: toggle_all
ToggleAllSel(subs, sel) ==
  IF Cardinality(sel) = Len(subs) /\ subs # <<>>
  THEN {}
  ELSE Range(subs)

ToggleAll(c) ==
  /\ InStage(c, "select_subjects")
  /\ LET sid == user_state[c] IN
     Commit(user_state, download_tasks,
            LET sel == ToggleAllSel(sessions[sid].subject_list,
                                    sessions[sid].selected_subjects)
            IN  [sessions EXCEPT
                   ![sid].selected_subjects = sel,
                   ![sid].picked =
                     PickedAfter(@, sel, sessions[sid].subject_list)],
            tasks, handlers)

\* lines 301-305: list(selected_subjects) lists the set in some order
ProceedSubjects(sel, subject_list) ==
  IF sel # {} THEN Perms(sel) ELSE {subject_list}

\* lines 300-307: proceed, up to await cq.message.delete()
ProceedBegin(c, h) ==
  /\ InStage(c, "select_subjects")
  /\ FreeSlot(h)
  /\ LET sid == user_state[c] IN
     \E subjects \in ProceedSubjects(sessions[sid].selected_subjects,
                                     sessions[sid].subject_list) :
       Commit(user_state, download_tasks,
              [sessions EXCEPT ![sid].selected_subjects = Range(subjects)],
              tasks,
              [handlers EXCEPT
                 ![h] = [Handler("proceed", c, sid, "delete")
                           EXCEPT !.subjects = subjects]])

\* lines 308-323: the delete returned (or raised, which ends the handler)
\* state["subjects_iter"] and state["start_indexes"] are bound to new
\* objects; a handler or task that fetched the old list or dict keeps it
ProceedFinish(h, outcome) ==
  /\ handlers[h].kind = "proceed"
  /\ LET sid == handlers[h].sid
         old == sessions[sid]
     IN  IF outcome = "ok"
         THEN Commit(user_state, download_tasks,
                [sessions EXCEPT
                   ![sid].stage = "await_start_index_subject",
                   ![sid].subjects_iter = handlers[h].subjects,
                   ![sid].start_indexes = EmptyDict,
                   ![sid].picked = <<>>],
                [t \in DOMAIN tasks |->
                   IF tasks[t].sid = sid /\ tasks[t].pc # "start"
                      /\ ~tasks[t].own_idx
                   THEN [tasks[t] EXCEPT !.own_idx = TRUE,
                                         !.start_indexes = old.start_indexes]
                   ELSE tasks[t]],
                [g \in HandlerIds |->
                   IF g = h THEN NoHandler
                   ELSE IF handlers[g].sid = sid
                           /\ handlers[g].kind \in
                                {"startidx_1", "startidx_custom"}
                           /\ ~handlers[g].detached
                   THEN [handlers[g] EXCEPT !.detached = TRUE,
                                            !.subjects = old.subjects_iter]
                   ELSE handlers[g]])
         ELSE Commit(user_state, download_tasks, sessions, tasks,
                     [handlers EXCEPT ![h] = NoHandler])

\* the list the handler's local subj_iter refers to
SubjIter(h) ==
  IF handlers[h].detached THEN handlers[h].subjects
  ELSE sessions[handlers[h].sid].subjects_iter

\* lines 353-375: ask for the next subject or move to the resolution stage
AfterStartIndex(sess, subj_iter) ==
  IF subj_iter # <<>>
  THEN sess
  ELSE [sess EXCEPT !.stage = "await_resolution"]

\* lines 327-334: startidx_1, up to await cq.message.delete(); subj_iter[0]
\* of an empty list raises IndexError and ends the handler
StartIdxOneBegin(c, h) ==
  /\ InStage(c, "await_start_index_subject")
  /\ FreeSlot(h)
  /\ LET sid == user_state[c]
         subj_iter == sessions[sid].subjects_iter
     IN  IF subj_iter = <<>>
         THEN UNCHANGED vars
         ELSE Commit(user_state, download_tasks,
                     [sessions EXCEPT
                        ![sid].start_indexes = DictSet(@, subj_iter[1], 1),
                        ![sid].subjects_iter = Tail(subj_iter)],
                     tasks,
                     [handlers EXCEPT
                        ![h] = Handler("startidx_1", c, sid, "delete")])

StartIdxOneFinish(h, outcome) ==
  /\ handlers[h].kind = "startidx_1"
  /\ LET sid == handlers[h].sid IN
     Commit(user_state, download_tasks,
            IF outcome = "ok"
            THEN [sessions EXCEPT ![sid] = AfterStartIndex(@, SubjIter(h))]
            ELSE sessions,
            tasks,
            [handlers EXCEPT ![h] = NoHandler])

\* the value of a sequence of decimal digits
RECURSIVE DecimalOf(_)
DecimalOf(ds) ==
  IF ds = <<>> THEN 0
  ELSE 10 * DecimalOf(SubSeq(ds, 1, Len(ds) - 1))
         + (CHOOSE d \in 0..9 : Digits[d + 1] = ds[Len(ds)])

\* int(text) does not raise ValueError: an optional sign, then digits
IsNumeric(text) ==
  LET ds == IF text # <<>> /\ text[1] = "-" THEN Tail(text) ELSE text IN
  /\ ds # <<>>
  /\ \A i \in DOMAIN ds : ds[i] \in Range(Digits)

\* int(resp.text.strip()) of a numeric text
IntOf(text) ==
  IF text[1] = "-" THEN 0 - DecimalOf(Tail(text)) ELSE DecimalOf(text)

\* lines 343-348
CustomIndex(text) ==
  IF IsNumeric(text)
  THEN IF IntOf(text) < 1 THEN 1 ELSE IntOf(text)
  ELSE 1

\* main.py lines 118-123: the start index of the single-list upload for the
\* typed text raw_start and a list of total links
UploadStartIndex(raw_start, total) ==
  IF IsNumeric(raw_start) /\ IntOf(raw_start) >= 1
     /\ IntOf(raw_start) <= total
  THEN IntOf(raw_start)
  ELSE 1

\* lines 335-342: startidx_custom, up to resp = await bot.listen(chat_id)
StartIdxCustomBegin(c, h) ==
  /\ InStage(c, "await_start_index_subject")
  /\ FreeSlot(h)
  /\ LET sid == user_state[c]
         subj_iter == sessions[sid].subjects_iter
     IN  IF subj_iter = <<>>
         THEN UNCHANGED vars
         ELSE Commit(user_state, download_tasks, sessions, tasks,
                     [handlers EXCEPT
                        ![h] = [Handler("startidx_custom", c, sid, "listen")
                                  EXCEPT !.cur = subj_iter[1]]])

\* lines 342-351: the operator's message arrives; the index is recorded and
\* the handler waits for prompt.delete() and resp.delete()
StartIdxCustomReply(h, text) ==
  /\ handlers[h].kind = "startidx_custom"
  /\ handlers[h].pc = "listen"
  /\ LET sid == handlers[h].sid IN
     Commit(user_state, download_tasks,
            [sessions EXCEPT ![sid].start_indexes =
               DictSet(@, handlers[h].cur, CustomIndex(text))],
            tasks,
            [handlers EXCEPT ![h].pc = "cleanup", ![h].resp = text])

\* lines 352-377: subj_iter.pop(0) (IndexError on an empty list), then the
\* next prompt or the resolution stage; a raising delete ends the handler
StartIdxCustomFinish(h, outcome) ==
  /\ handlers[h].kind = "startidx_custom"
  /\ handlers[h].pc = "cleanup"
  /\ LET sid == handlers[h].sid
         subj_iter == SubjIter(h)
     IN
     Commit(user_state, download_tasks,
            IF outcome = "ok" /\ subj_iter # <<>>
            THEN [sessions EXCEPT
                    ![sid] = AfterStartIndex(
                               IF handlers[h].detached THEN @
                               ELSE [@ EXCEPT !.subjects_iter = Tail(@)],
                               Tail(subj_iter))]
            ELSE sessions,
            tasks,
            [handlers EXCEPT ![h] = NoHandler])

\* lines 380-384: res<NNN>, up to await cq.message.delete()
ResolutionBegin(c, h, res) ==
  /\ InStage(c, "await_resolution")
  /\ FreeSlot(h)
  /\ LET sid == user_state[c] IN
     Commit(user_state, download_tasks,
            [sessions EXCEPT ![sid].resolution = res],
            tasks,
            [handlers EXCEPT ![h] = Handler("res", c, sid, "delete")])

\* lines 385-390: the stage becomes downloading and the task is created and
\* registered; a raising delete ends the handler before that
ResolutionFinish(h, outcome, nt) ==
  /\ handlers[h].kind = "res"
  /\ LET sid == handlers[h].sid
         c == handlers[h].chat
     IN  IF outcome = "ok"
         THEN /\ Len(tasks) < nt
              /\ Commit(user_state,
                        [download_tasks EXCEPT ![c] = Len(tasks) + 1],
                        [sessions EXCEPT ![sid].stage = "downloading"],
                        Append(tasks, NewTask(c, sid)),
                        [handlers EXCEPT ![h] = NoHandler])
         ELSE Commit(user_state, download_tasks, sessions, tasks,
                     [handlers EXCEPT ![h] = NoHandler])

\* the buttons of the keyboards, by the branch of handle_button they reach
ButtonKinds == {"toggle", "toggle_all", "proceed", "startidx", "res"}

StageOfButton(kind) ==
  CASE kind \in {"toggle", "toggle_all", "proceed"} -> "select_subjects"
    [] kind = "startidx" -> "await_start_index_subject"
    [] kind = "res" -> "await_resolution"

\* a handler that runs the toggle_all branch whatever the stage is
ButtonIgnoredToggles(c, kind, h) ==
  /\ kind \in ButtonKinds
  /\ FreeSlot(h)
  /\ user_state[c] = 0 \/ ~InStage(c, StageOfButton(kind))
  /\ Commit(user_state, download_tasks,
            [i \in DOMAIN sessions |->
               IF user_state[c] = i
               THEN [sessions[i] EXCEPT
                       !.selected_subjects =
                         ToggleAllSel(sessions[i].subject_list, @)]
               ELSE sessions[i]],
            tasks,
            [handlers EXCEPT ![h] = Handler("ignored", c, 0, "answer")])

\* lines 266-269 and 392: no session, or no branch for this stage and
\* button; the handler goes straight to await cq.answer(...)
ButtonIgnored(c, kind, h) ==
  /\ kind \in ButtonKinds
  /\ FreeSlot(h)
  /\ user_state[c] = 0 \/ ~InStage(c, StageOfButton(kind))
  /\ Commit(user_state, download_tasks, sessions, tasks,
            [handlers EXCEPT ![h] = Handler("ignored", c, 0, "answer")])

\* lines 268-269 and 392: cq.answer returns or raises, and the handler ends
ButtonIgnoredFinish(h) ==
  /\ handlers[h].kind = "ignored"
  /\ Commit(user_state, download_tasks, sessions, tasks,
            [handlers EXCEPT ![h] = NoHandler])

(***************************************************************************)
(* stop_cmd: the reply, then os.execl replaces the process.                *)
(***************************************************************************)
\* a stop command that raises the cancel flag of the conversation's session
StopBeginSetsCancel(c, h) ==
  /\ FreeSlot(h)
  /\ Commit(user_state, download_tasks,
            [i \in DOMAIN sessions |->
               IF user_state[c] = i THEN [sessions[i] EXCEPT !.cancel = TRUE]
               ELSE sessions[i]],
            tasks,
            [handlers EXCEPT ![h] = Handler("stop", c, 0, "reply")])

\* line 213: await m.reply_text(...)
StopBegin(c, h) ==
  /\ FreeSlot(h)
  /\ Commit(user_state, download_tasks, sessions, tasks,
            [handlers EXCEPT ![h] = Handler("stop", c, 0, "reply")])

\* line 214: the reply returned; the new process image starts from the
\* module-level state, with no coroutine of the old one
StopExec(h) ==
  /\ handlers[h].kind = "stop"
  /\ user_state' = [c \in Chats |-> 0]
  /\ download_tasks' = [c \in Chats |-> 0]
  /\ sessions' = <<>>
  /\ tasks' = <<>>
  /\ handlers' = [g \in HandlerIds |-> NoHandler]
  /\ parse' = parse
  /\ thumb' = thumb
  /\ progress' = progress
  /\ files' = files

\* the reply raised: the handler ends before os.execl
StopFail(h) ==
  /\ handlers[h].kind = "stop"
  /\ Commit(user_state, download_tasks, sessions, tasks,
            [handlers EXCEPT ![h] = NoHandler])

(***************************************************************************)
(* process_downloads.                                                      *)
(***************************************************************************)
\* re.search(r"\d+", chap_name), zfill(2), of the chapter names of Scripts
ChapterPrefix(chap_name) ==
  IF chap_name = "Chapter 01" THEN "CH 01 " ELSE ""

\* the place sorted() gives x among the already sorted items of acc: after
\* every item whose label is not greater (the sort is stable)
RECURSIVE InsertByLabel(_, _)
InsertByLabel(acc, x) ==
  IF acc = <<>> THEN <<x>>
  ELSE IF x[1] < Head(acc)[1] THEN <<x>> \o acc
  ELSE <<Head(acc)>> \o InsertByLabel(Tail(acc), x)

\* a flattening that keeps the items in the order of the script
Unsorted(items) == items

\* sorted(items, key=lambda x: x[0])
RECURSIVE SortedByLabel(_)
SortedByLabel(items) ==
  IF items = <<>> THEN <<>>
  ELSE InsertByLabel(SortedByLabel(SubSeq(items, 1, Len(items) - 1)),
                     items[Len(items)])

\* lines 417-420: one chapter's lectures, then its DPP videos
ChapterItems(ch) ==
  LET both == SortedByLabel(ch.Lectures) \o SortedByLabel(ch.DPP) IN
  [i \in DOMAIN both |->
     [prefix |-> ChapterPrefix(ch.name), label |-> both[i][1],
      url |-> both[i][2]]]

RECURSIVE ChaptersItems(_)
ChaptersItems(chs) ==
  IF chs = <<>> THEN <<>>
  ELSE ChapterItems(Head(chs)) \o ChaptersItems(Tail(chs))

\* lines 408-421: subject_links[subj]
Flatten(data, subj) ==
  LET i == IndexOfName(data, subj) IN
  IF i = 0 THEN <<>> ELSE ChaptersItems(data[i].chapters)

\* start_indexes.get(subj, 1)
StartIndexOf(start_indexes, subj) ==
  IF subj \in DOMAIN start_indexes THEN start_indexes[subj] ELSE 1

\* links[n:] for n >= 0
SliceFrom(links, n) == SubSeq(links, n + 1, Len(links))

\* a slice that begins one item late: links[start_idx:]
ToProcessLate(links, start_idx) ==
  IF start_idx > 1 THEN SliceFrom(links, start_idx) ELSE links

\* line 428
ToProcess(links, start_idx) ==
  IF start_idx > 1 THEN SliceFrom(links, start_idx - 1) ELSE links

\* how a platform call made by a task ends: it returns, raises an error,
\* raises the slow-down signal (FloodWait), or the task is cancelled there
Outcomes == {"ok", "error", "flood", "cancel"}

TaskIds == DOMAIN tasks

\* lines 430-445: the top of the item loop for the item at position ii
AtItem(tk, sess) ==
  IF tk.ii <= Len(tk.to_process)
  THEN IF sess.cancel
       THEN [tk EXCEPT !.pc = "cancelmsg"]
       ELSE [tk EXCEPT !.pc = "verify", !.exc = ""]
  ELSE [tk EXCEPT !.pc = "subjmsg", !.exc = ""]

\* a subject loop that ends the run at a subject whose clipped list is empty
AtSubjectSkipsEmpty(tk, sess) ==
  IF tk.si <= Len(tk.subjects)
  THEN LET subj == tk.subjects[tk.si]
           start_idx == StartIndexOf(IF tk.own_idx THEN tk.start_indexes
                                     ELSE sess.start_indexes, subj)
           to_process == ToProcess(Flatten(sess.data, subj), start_idx)
       IN  IF to_process = <<>>
           THEN [tk EXCEPT !.pc = "batchmsg", !.to_process = <<>>, !.ii = 0,
                           !.start_idx = 0, !.count = 0]
           ELSE AtItem([tk EXCEPT
                          !.to_process = to_process,
                          !.start_idx = start_idx,
                          !.count = start_idx,
                          !.ii = 1], sess)
  ELSE [tk EXCEPT !.pc = "batchmsg", !.to_process = <<>>, !.ii = 0,
                  !.start_idx = 0, !.count = 0]

\* lines 424-429: the top of the subject loop for the subject at position si
AtSubject(tk, sess) ==
  IF tk.si <= Len(tk.subjects)
  THEN LET subj == tk.subjects[tk.si]
           start_idx == StartIndexOf(IF tk.own_idx THEN tk.start_indexes
                                     ELSE sess.start_indexes, subj)
       IN  AtItem([tk EXCEPT
                     !.to_process = ToProcess(Flatten(sess.data, subj),
                                              start_idx),
                     !.start_idx = start_idx,
                     !.count = start_idx,
                     !.ii = 1], sess)
  ELSE [tk EXCEPT !.pc = "batchmsg", !.to_process = <<>>, !.ii = 0,
                  !.start_idx = 0, !.count = 0]

\* a finally clause without line 493: the session entry stays
FinallyKeepsSession(t, how) ==
  Commit(user_state,
         [download_tasks EXCEPT ![tasks[t].chat] = 0],
         sessions,
         [tasks EXCEPT ![t] = DoneTask(how)],
         handlers)

\* lines 488-493: the finally clause, on every way out of the coroutine
Finally(t, how) ==
  Commit([user_state EXCEPT ![tasks[t].chat] = 0],
         [download_tasks EXCEPT ![tasks[t].chat] = 0],
         sessions,
         [tasks EXCEPT ![t] = DoneTask(how)],
         handlers)

\* how the coroutine ends when a call outside the inner try does not return:
\* CancelledError is caught at lines 488-490, anything else leaves it
ExitOf(outcome) == IF outcome = "cancel" THEN "cancelled" ELSE "raised"

\* the task moves on inside the coroutine
Continue(t, tk) ==
  Commit(user_state, download_tasks, sessions, [tasks EXCEPT ![t] = tk],
         handlers)

\* lines 399-422: the task's first step, up to await get_default_thumb()
TaskStart(t) ==
  /\ tasks[t].pc = "start"
  /\ LET sess == sessions[tasks[t].sid] IN
     \E subjects \in Perms(sess.selected_subjects) :
       Continue(t, [tasks[t] EXCEPT !.pc = "thumb", !.subjects = subjects,
                                    !.res = sess.resolution])

\* lines 422-424: the thumbnail call returns and the subject loop begins
TaskThumb(t, outcome) ==
  /\ tasks[t].pc = "thumb"
  /\ IF outcome = "ok"
     THEN Continue(t, AtSubject([tasks[t] EXCEPT !.si = 1],
                                sessions[tasks[t].sid]))
     ELSE Finally(t, ExitOf(outcome))

\* a call inside the try of lines 436-460 ended otherwise than by returning:
\* CancelledError leaves the coroutine, any other exception goes to the
\* handler of lines 463-466, which sends the error notice
ItemRaised(t, outcome) ==
  IF outcome = "cancel"
  THEN Finally(t, "cancelled")
  ELSE Continue(t, [tasks[t] EXCEPT !.pc = "errnotify", !.exc = outcome])

\* lines 437-445: the "Verifying" notice
ItemVerify(t, outcome) ==
  /\ tasks[t].pc = "verify"
  /\ IF outcome = "ok"
     THEN Continue(t, [tasks[t] EXCEPT !.pc = "download"])
     ELSE ItemRaised(t, outcome)

\* line 445: download_video
ItemDownload(t, outcome) ==
  /\ tasks[t].pc = "download"
  /\ IF outcome = "ok"
     THEN Continue(t, [tasks[t] EXCEPT !.pc = "infodel"])
     ELSE ItemRaised(t, outcome)

\* line 446 and core.py 282-324: info.delete(), then send_vid up to its
\* "Uploading" notice; both raise into the handler of lines 463-466
ItemInfoDelete(t, outcome) ==
  /\ tasks[t].pc = "infodel"
  /\ IF outcome = "ok"
     THEN Continue(t, [tasks[t] EXCEPT !.pc = "upvid"])
     ELSE ItemRaised(t, outcome)

\* core.py 351-383: reply_video; any Exception falls back to reply_document
UploadVideo(t, outcome) ==
  /\ tasks[t].pc = "upvid"
  /\ IF outcome = "ok"
     THEN Continue(t, [tasks[t] EXCEPT !.pc = "updel"])
     ELSE IF outcome = "cancel"
     THEN Finally(t, "cancelled")
     ELSE Continue(t, [tasks[t] EXCEPT !.pc = "updoc", !.exc = outcome])

\* core.py 378-383: the fallback reply_document
UploadDocument(t, outcome) ==
  /\ tasks[t].pc = "updoc"
  /\ IF outcome = "ok"
     THEN Continue(t, [tasks[t] EXCEPT !.pc = "updel", !.exc = ""])
     ELSE ItemRaised(t, outcome)

\* core.py 385-393 and lines 458-460: reply.delete(), then the counters
UploadCleanup(t, outcome) ==
  /\ tasks[t].pc = "updel"
  /\ IF outcome = "ok"
     THEN Continue(t, [tasks[t] EXCEPT
                         !.pc = "sleep",
                         !.count = @ + 1,
                         !.total_uploaded = @ + 1])
     ELSE ItemRaised(t, outcome)

\* line 460: asyncio.sleep(1), then the next item
ItemSleep(t, outcome) ==
  /\ tasks[t].pc = "sleep"
  /\ outcome \in {"ok", "cancel"}
  /\ IF outcome = "ok"
     THEN Continue(t, AtItem([tasks[t] EXCEPT !.ii = @ + 1],
                             sessions[tasks[t].sid]))
     ELSE Finally(t, "cancelled")

\* an except clause that goes back to the item that failed
ErrorNotifyRetries(t, outcome) ==
  /\ tasks[t].pc = "errnotify"
  /\ IF outcome = "ok"
     THEN Continue(t, AtItem(tasks[t], sessions[tasks[t].sid]))
     ELSE Finally(t, ExitOf(outcome))

\* an except clause that counts the failed item as uploaded
ErrorNotifyCounts(t, outcome) ==
  /\ tasks[t].pc = "errnotify"
  /\ IF outcome = "ok"
     THEN Continue(t, AtItem([tasks[t] EXCEPT !.ii = @ + 1,
                                             !.total_uploaded = @ + 1],
                             sessions[tasks[t].sid]))
     ELSE Finally(t, ExitOf(outcome))

\* lines 463-466: the error notice of the except clause; when it returns
\* the loop continues, when it raises the exception leaves the coroutine
ErrorNotify(t, outcome) ==
  /\ tasks[t].pc = "errnotify"
  /\ IF outcome = "ok"
     THEN Continue(t, AtItem([tasks[t] EXCEPT !.ii = @ + 1],
                             sessions[tasks[t].sid]))
     ELSE Finally(t, ExitOf(outcome))

\* lines 432-433, 467 and 468-487: the "cancelled" notice, the subject
\* summary, the batch summary and the notes document (whose exceptions
\* are caught at line 486)
Notice(t, outcome) ==
  /\ tasks[t].pc \in {"cancelmsg", "subjmsg", "batchmsg", "notes"}
  /\ LET sess == sessions[tasks[t].sid] IN
     IF outcome = "ok" /\ tasks[t].pc = "subjmsg"
     THEN Continue(t, AtSubject([tasks[t] EXCEPT !.si = @ + 1], sess))
     ELSE IF outcome = "ok" /\ tasks[t].pc = "batchmsg"
               /\ Len(tasks[t].subjects) = Len(sess.subject_list)
     THEN Continue(t, [tasks[t] EXCEPT !.pc = "notes"])
     ELSE Finally(t, IF outcome = "cancel" THEN "cancelled"
                     ELSE IF outcome = "ok" \/ tasks[t].pc = "notes"
                     THEN "returned" ELSE "raised")

\* main.py line 190: range(start_index - 1, total_links), the 0-based
\* positions the single-list upload loop visits
UploadIndices(start_index, total_links) ==
  (start_index - 1) .. (total_links - 1)

(***************************************************************************)
(* The specification.                                                      *)
(***************************************************************************)
HandlerOutcomes == {"ok", "raise"}

\* the steps of the program with the operators of the chats C, the handler
\* frames H, at most ns session dicts and nt tasks per process lifetime,
\* uploads drawn from the scripts SC, the resolution buttons RS and the
\* typed custom indexes TX
Steps(C, H, ns, nt, SC, RS, TX) ==
  \/ \E c \in C, s \in SC, h \in H : HandleScriptBegin(c, s, h, ns)
  \/ \E h \in H, o \in HandlerOutcomes : HandleScriptFinish(h, o)
  \/ \E c \in C, i \in 1..2 : ToggleSubject(c, i)
  \/ \E c \in C : ToggleAll(c)
  \/ \E c \in C, h \in H : ProceedBegin(c, h)
  \/ \E h \in H, o \in HandlerOutcomes : ProceedFinish(h, o)
  \/ \E c \in C, h \in H : StartIdxOneBegin(c, h)
  \/ \E h \in H, o \in HandlerOutcomes : StartIdxOneFinish(h, o)
  \/ \E c \in C, h \in H : StartIdxCustomBegin(c, h)
  \/ \E h \in H, x \in TX : StartIdxCustomReply(h, x)
  \/ \E h \in H, o \in HandlerOutcomes : StartIdxCustomFinish(h, o)
  \/ \E c \in C, h \in H, r \in RS : ResolutionBegin(c, h, r)
  \/ \E h \in H, o \in HandlerOutcomes : ResolutionFinish(h, o, nt)
  \/ \E c \in C, h \in H : StopBegin(c, h)
  \/ \E h \in H : StopExec(h)
  \/ \E h \in H : StopFail(h)
  \/ \E t \in TaskIds : TaskStart(t)
  \/ \E t \in TaskIds, o \in Outcomes : TaskThumb(t, o)
  \/ \E t \in TaskIds, o \in Outcomes : ItemVerify(t, o)
  \/ \E t \in TaskIds, o \in Outcomes : ItemDownload(t, o)
  \/ \E t \in TaskIds, o \in Outcomes : ItemInfoDelete(t, o)
  \/ \E t \in TaskIds, o \in Outcomes : UploadVideo(t, o)
  \/ \E t \in TaskIds, o \in Outcomes : UploadDocument(t, o)
  \/ \E t \in TaskIds, o \in Outcomes : UploadCleanup(t, o)
  \/ \E t \in TaskIds, o \in Outcomes : ItemSleep(t, o)
  \/ \E t \in TaskIds, o \in Outcomes : ErrorNotify(t, o)
  \/ \E t \in TaskIds, o \in Outcomes : Notice(t, o)

\* one operator whose presses are handled one after another, with one
\* session dict and one task per process lifetime (a /stop starts a new one)
Next ==
  \/ Steps(ActiveChats, {1}, 1, 1, {"two", "empty"}, Resolutions, CustomTexts)
  \/ \E c \in ActiveChats, f \in OtherFiles : HandleScriptRejected(c, f, 1)
  \/ HandleScriptRejectedFinish(1)
  \/ \E c \in ActiveChats, k \in ButtonKinds : ButtonIgnored(c, k, 1)
  \/ ButtonIgnoredFinish(1)

Spec == Init /\ [][Next]_vars

\* the calls made by task t return or raise: the coroutine takes its next
\* step
TaskStep(t) ==
  /\ t \in TaskIds
  /\ \/ TaskStart(t)
     \/ \E o \in Outcomes :
          \/ TaskThumb(t, o)
          \/ ItemVerify(t, o)
          \/ ItemDownload(t, o)
          \/ ItemInfoDelete(t, o)
          \/ UploadVideo(t, o)
          \/ UploadDocument(t, o)
          \/ UploadCleanup(t, o)
          \/ ItemSleep(t, o)
          \/ ErrorNotify(t, o)
          \/ Notice(t, o)

\* Spec with every call of a pipeline eventually returning or raising
SpecLive ==
  Init /\ [][Next]_vars /\ \A t \in 1..MaxTasks : WF_vars(TaskStep(t))

\* uploads that supersede a live session, on the one-item script and with
\* one resolution button
NextConcurrent ==
  Steps(ActiveChats, {1}, MaxSessions, MaxTasks, {"one"}, {"720"},
        {<<"a", "b", "c">>, Numeral(2)})

SpecConcurrent == Init /\ [][NextConcurrent]_vars

\* presses delivered again while a handler is suspended, on the one-item
\* script
NextRace ==
  Steps(ActiveChats, HandlerIds, 1, MaxTasks, {"one"}, Resolutions,
        {<<"a", "b", "c">>, Numeral(2)})

SpecRace == Init /\ [][NextRace]_vars

(***************************************************************************)
(* parse_file on its own: the loop of lines 78-102 reads one more line of  *)
(* a script text of at most MaxLines lines.                                *)
(***************************************************************************)
\* the lines a script can have at position n; each url line has its own url
ScriptLines(n) ==
  { SubjLine("Physics"), ChapLine("Intro"), ChapLine("Chapter 01"),
    SetLine("lecture", 1), SetLine("lecture", 2), SetLine("dpp_video", 1),
    UrlLine(n) }

\* lines 78-102: one iteration of the loop over text.splitlines()
ParseStep(line) ==
  /\ Len(parse.lines) < MaxLines
  /\ parse' = [lines |-> Append(parse.lines, line),
               st |-> ParseLine(parse.st, line)]
  /\ UNCHANGED <<user_state, download_tasks, sessions, tasks, handlers,
                 thumb, progress, files>>

NextParse == \E line \in ScriptLines(Len(parse.lines) + 1) : ParseStep(line)

SpecParse == Init /\ [][NextParse]_vars

(***************************************************************************)
(* get_default_thumb on its own: the calls of up to MaxCallers pipelines,  *)
(* each suspended at its awaits.                                           *)
(***************************************************************************)
ThumbOutcomes == {"ok", "raise"}

\* the call of caller k moves to pc
ThumbAt(k, pc) == [thumb EXCEPT !.pc[k] = pc]

\* return path: the caller has the path, with the file as it is now
ThumbReturn(th, k) == [th EXCEPT !.pc[k] = "returned", !.got[k] = th.file]

ThumbStep(th) ==
  /\ thumb' = th
  /\ UNCHANGED <<user_state, download_tasks, sessions, tasks, handlers,
                 parse, progress, files>>

\* lines 52-55: os.path.exists(path), then the request is sent
ThumbCall(k) ==
  /\ thumb.pc[k] = "idle"
  /\ IF thumb.file # "missing"
     THEN ThumbStep(ThumbReturn(thumb, k))
     ELSE ThumbStep([ThumbAt(k, "get") EXCEPT !.fetches = @ + 1])

\* lines 54-56: the response arrives with status 200 or another status, or
\* the request raises
ThumbGet(k, status) ==
  /\ thumb.pc[k] = "get"
  /\ status \in {"200", "404", "raise"}
  /\ IF status = "200" THEN ThumbStep(ThumbAt(k, "open"))
     ELSE IF status = "404" THEN ThumbStep(ThumbReturn(thumb, k))
     ELSE ThumbStep(ThumbAt(k, "raised"))

\* line 57: aiofiles.open(path, "wb") creates the file, or empties it
ThumbOpen(k, outcome) ==
  /\ thumb.pc[k] = "open"
  /\ IF outcome = "ok"
     THEN ThumbStep([ThumbAt(k, "read") EXCEPT !.file = "partial"])
     ELSE ThumbStep(ThumbAt(k, "raised"))

\* line 58: await resp.read(); when it raises the file is closed as it is
ThumbRead(k, outcome) ==
  /\ thumb.pc[k] = "read"
  /\ IF outcome = "ok"
     THEN ThumbStep(ThumbAt(k, "write"))
     ELSE ThumbStep(ThumbAt(k, "raised"))

\* lines 58-59: await f.write(...), the file is closed, return path
ThumbWrite(k, outcome) ==
  /\ thumb.pc[k] = "write"
  /\ IF outcome = "ok"
     THEN ThumbStep(ThumbReturn([thumb EXCEPT !.file = "whole"], k))
     ELSE ThumbStep(ThumbAt(k, "raised"))

NextThumb ==
  \/ \E k \in Callers : ThumbCall(k)
  \/ \E k \in Callers, st \in {"200", "404", "raise"} : ThumbGet(k, st)
  \/ \E k \in Callers, o \in ThumbOutcomes : ThumbOpen(k, o)
  \/ \E k \in Callers, o \in ThumbOutcomes : ThumbRead(k, o)
  \/ \E k \in Callers, o \in ThumbOutcomes : ThumbWrite(k, o)

SpecThumb == Init /\ [][NextThumb]_vars

(***************************************************************************)
(* progress_bar on its own: the transfers of the conversations call it     *)
(* with the clock running; a call is suspended at its edit, or is inside   *)
(* time.sleep, which keeps the event loop.                                 *)
(***************************************************************************)
\* the durations a FloodWait can carry
FloodWaits == {1, 4}

\* a timer whose can_send does not restart the interval
can_send_keeps(start_time, t) ==
  [ok |-> t > start_time + TimeBetween, start_time |-> start_time]

\* utils.py lines 27-32: Timer.can_send at clock reading t
can_send(start_time, t) ==
  IF t > start_time + TimeBetween
  THEN [ok |-> TRUE, start_time |-> t]
  ELSE [ok |-> FALSE, start_time |-> start_time]

\* the event loop is not held by a time.sleep
LoopFree == \A c \in Chats : progress.pc[c] # "sleep"

ProgressStep(pr) ==
  /\ progress' = pr
  /\ UNCHANGED <<user_state, download_tasks, sessions, tasks, handlers,
                 parse, thumb, files>>

\* a second passes
Tick ==
  /\ progress.now < MaxTime
  /\ ProgressStep([progress EXCEPT !.now = @ + 1])

\* utils.py lines 92-98 and 160-161: a call for a transfer that started at
\* start; it returns at once, or gets to await reply.edit(...)
ProgressCall(c, start) ==
  /\ LoopFree
  /\ progress.pc[c] = "idle"
  /\ start \in 0..progress.now
  /\ LET cs == can_send(progress.start_time, progress.now)
         diff == progress.now - start
     IN  IF cs.ok /\ diff >= 1
         THEN ProgressStep([progress EXCEPT
                              !.start_time = cs.start_time,
                              !.pc[c] = "edit",
                              !.exc[c] = "",
                              !.emits = @ + 1,
                              !.last_emit = progress.now])
         ELSE ProgressStep([progress EXCEPT !.start_time = cs.start_time])

\* core.py lines 186-199 and utils.py lines 92-98: the hook is told that the
\* download is finished and schedules progress_bar(total, total, ...); the
\* call goes through the same two tests as any other
ProgressFinished(c, start) ==
  /\ LoopFree
  /\ progress.pc[c] = "idle"
  /\ start \in 0..progress.now
  /\ LET cs == can_send(progress.start_time, progress.now)
         diff == progress.now - start
     IN  IF cs.ok /\ diff >= 1
         THEN ProgressStep([progress EXCEPT
                              !.start_time = cs.start_time,
                              !.pc[c] = "edit",
                              !.exc[c] = "",
                              !.emits = @ + 1,
                              !.last_emit = progress.now,
                              !.final[c] = "emitted"])
         ELSE ProgressStep([progress EXCEPT !.start_time = cs.start_time,
                                            !.final[c] = "dropped"])

\* an edit whose FloodWait leaves progress_bar
ProgressEditPropagates(c, outcome, x) ==
  /\ LoopFree
  /\ progress.pc[c] = "edit"
  /\ IF outcome = "ok"
     THEN ProgressStep([progress EXCEPT !.pc[c] = "idle"])
     ELSE ProgressStep([progress EXCEPT !.pc[c] = "raised",
                                        !.exc[c] = outcome])

\* utils.py lines 160-163: the edit returns, raises FloodWait (time.sleep
\* begins, for e.x seconds) or raises another error, which leaves the call
ProgressEdit(c, outcome, x) ==
  /\ LoopFree
  /\ progress.pc[c] = "edit"
  /\ IF outcome = "ok"
     THEN ProgressStep([progress EXCEPT !.pc[c] = "idle"])
     ELSE IF outcome = "flood"
     THEN ProgressStep([progress EXCEPT !.pc[c] = "sleep",
                                        !.exc[c] = "flood",
                                        !.wake[c] = progress.now + x])
     ELSE ProgressStep([progress EXCEPT !.pc[c] = "raised",
                                        !.exc[c] = outcome])

\* utils.py line 163: time.sleep(e.x) is over and progress_bar returns
ProgressWake(c) ==
  /\ progress.pc[c] = "sleep"
  /\ progress.now >= progress.wake[c]
  /\ ProgressStep([progress EXCEPT !.pc[c] = "idle"])

NextProgress ==
  \/ Tick
  \/ \E c \in Chats, start \in 0..MaxTime : ProgressCall(c, start)
  \/ \E c \in Chats, start \in 0..MaxTime : ProgressFinished(c, start)
  \/ \E c \in Chats, o \in {"ok", "flood", "error"}, x \in FloodWaits :
       ProgressEdit(c, o, x)
  \/ \E c \in Chats : ProgressWake(c)

SpecProgress == Init /\ [][NextProgress]_vars

(***************************************************************************)
(* The working files of the pipelines of the conversations, which run in   *)
(* one working directory.                                                  *)
(***************************************************************************)
FilesStep(fs) ==
  /\ files' = fs
  /\ UNCHANGED <<user_state, download_tasks, sessions, tasks, handlers,
                 parse, thumb, progress>>

\* fullbatch.py lines 430-445: the pipeline of c comes to an item and calls
\* download_video
FileItemBegin(c, name) ==
  /\ files.pc[c] = "idle"
  /\ FilesStep([files EXCEPT !.pc[c] = "download", !.name[c] = name])

\* core.py lines 203-240: yt-dlp writes the file of the item, or keeps a file
\* that is already there
FileDownload(c, keep) ==
  /\ files.pc[c] = "download"
  /\ LET path == DownloadPath(files.name[c]) IN
     IF keep /\ files.disk[path] # "none"
     THEN FilesStep([files EXCEPT !.pc[c] = "postprocess"])
     ELSE FilesStep([files EXCEPT !.pc[c] = "postprocess",
                                  !.disk[path] = c])

\* core.py lines 282-324: send_vid removes a file at upload_path and renames
\* the download to it (os.rename raises when the download is gone), then
\* waits for its notice and the upload
FilePostProcess(c) ==
  /\ files.pc[c] = "postprocess"
  /\ LET from == DownloadPath(files.name[c])
         to == UploadPath(files.name[c])
     IN  IF files.disk[from] = "none"
         THEN FilesStep([files EXCEPT !.pc[c] = "idle", !.disk[to] = "none"])
         ELSE FilesStep([files EXCEPT !.pc[c] = "upload",
                                      !.disk[to] = files.disk[from],
                                      !.disk[from] = "none"])

\* core.py lines 351-389: reply_video sends the file at upload_path (it
\* raises when the file is gone), and the file is removed
FileUpload(c) ==
  /\ files.pc[c] = "upload"
  /\ LET path == UploadPath(files.name[c]) IN
     IF files.disk[path] = "none"
     THEN FilesStep([files EXCEPT !.pc[c] = "idle"])
     ELSE FilesStep([files EXCEPT !.pc[c] = "idle",
                                  !.uploaded[c] = files.disk[path],
                                  !.disk[path] = "none"])

NextFiles ==
  \/ \E c \in Chats, n \in ItemNames : FileItemBegin(c, n)
  \/ \E c \in Chats, keep \in BOOLEAN : FileDownload(c, keep)
  \/ \E c \in Chats : FilePostProcess(c)
  \/ \E c \in Chats : FileUpload(c)

SpecFiles == Init /\ [][NextFiles]_vars

(***************************************************************************)
(* Properties.                                                             *)
(***************************************************************************)
\* the positions of a task while one item is being transferred
ItemPcs == {"verify", "download", "infodel", "upvid", "updoc", "updel"}

\* the positions of a task inside the subject loop
SubjectPcs == ItemPcs \cup {"sleep", "errnotify", "subjmsg"}

\* the step makes task t begin the transfer of an item
StartsItem(t) ==
  /\ t \in DOMAIN tasks'
  /\ tasks[t].pc \notin ItemPcs
  /\ tasks'[t].pc = "verify"

\* the tasks of chat c that have not ended
LiveTasks(c) ==
  {t \in DOMAIN tasks : tasks[t].chat = c /\ tasks[t].pc # "done"}

\* the registry of chat c holds a newer dict than the one task t runs on
Superseded(t) ==
  /\ tasks[t].pc # "done"
  /\ user_state[tasks[t].chat] \notin {0, tasks[t].sid}

\* C1: once an upload has replaced the session of a conversation, no
\* pipeline task of the replaced session starts another item.
C1_NoZombiePipeline ==
  [][\A t \in DOMAIN tasks : Superseded(t) => ~StartsItem(t)]_vars

\* C2: in every reachable state at most one process_downloads run is active
\* per conversation, whatever the interleaving of button callbacks.
C2_OnePipelinePerChat ==
  \A c \in Chats : Cardinality(LiveTasks(c)) <= 1

\* C3: an item whose call raised the slow-down signal is retried: the task
\* leaves the signal's handling only to attempt the same item again (or by
\* cancellation), never to the next item, the summary or a failure exit.
C3_SlowDownRetriesSameItem ==
  [][\A t \in DOMAIN tasks :
       ( /\ t \in DOMAIN tasks'
         /\ tasks[t].pc = "errnotify"
         /\ tasks[t].exc = "flood"
         /\ tasks'[t].pc # "errnotify" )
       => \/ tasks'[t].pc = "verify" /\ tasks'[t].ii = tasks[t].ii
          \/ tasks'[t].pc = "done" /\ tasks'[t].exc = "cancelled"]_vars

\* C4: failure isolation: after an item raised a non-cancellation error the
\* run is not aborted; the task goes on to the next item or to the subject's
\* summary (or leaves by cancellation).
C4_FailureIsolation ==
  [][\A t \in DOMAIN tasks :
       ( /\ t \in DOMAIN tasks'
         /\ tasks[t].pc = "errnotify"
         /\ tasks[t].exc = "error"
         /\ tasks'[t].pc # "errnotify" )
       => \/ tasks'[t].pc \in {"verify", "subjmsg"}
             /\ tasks'[t].total_uploaded = tasks[t].total_uploaded
          \/ tasks'[t].pc = "done" /\ tasks'[t].exc = "cancelled"]_vars

\* C5: a stop signal cancels the session of its conversation: while the
\* stop is being handled no pipeline of the conversation starts a new item,
\* and when its handling ends the conversation has no session and no
\* running pipeline.
C5_StopCancelsSession ==
  [][\A h \in HandlerIds :
       handlers[h].kind = "stop" =>
         /\ \A t \in LiveTasks(handlers[h].chat) : ~StartsItem(t)
         /\ handlers'[h].kind # "stop" =>
              /\ user_state'[handlers[h].chat] = 0
              /\ \A t \in DOMAIN tasks' :
                   tasks'[t].chat # handlers[h].chat]_vars

\* C6: cancellation never hard-kills a transfer: a task that is in the
\* middle of an item is still there after every step, to complete the item
\* or to leave by its own cancellation path.
C6_NoHardKill ==
  [][\A t \in DOMAIN tasks :
       tasks[t].pc \in ItemPcs => t \in DOMAIN tasks']_vars

\* C7: whenever a process_downloads run exits, by whichever path, the
\* session registry and the task registry hold no entry for the session the
\* run was executing.
C7_ExitClearsRegistries ==
  [][\A t \in DOMAIN tasks :
       ( /\ t \in DOMAIN tasks'
         /\ tasks[t].pc # "done"
         /\ tasks'[t].pc = "done" )
       => /\ user_state'[tasks[t].chat] # tasks[t].sid
          /\ download_tasks'[tasks[t].chat] # t]_vars

\* a run that an exception left, with both registries of the chat empty
C7_Witness ==
  \E t \in DOMAIN tasks :
    /\ tasks[t].pc = "done"
    /\ tasks[t].exc = "raised"
    /\ \A c \in ActiveChats : user_state[c] = 0 /\ download_tasks[c] = 0

\* toggle_all applied twice to the selection of the session of chat c
ToggleAllTwice(c) ==
  LET sess == sessions[user_state[c]] IN
  ToggleAllSel(sess.subject_list,
               ToggleAllSel(sess.subject_list, sess.selected_subjects))

\* C8 (as stated): for every selection (empty, partial or full) toggle_all
\* applied twice returns the selection set to its original value.
C8_ToggleAllTwiceRestores ==
  \A c \in Chats :
    InStage(c, "select_subjects") =>
      ToggleAllTwice(c) = sessions[user_state[c]].selected_subjects

\* C8 (amended): toggle_all applied twice returns an empty or a full
\* selection to its original value; from a partial selection it leaves the
\* empty set.
C8_ToggleAllTwice ==
  \A c \in Chats :
    InStage(c, "select_subjects") =>
      LET sess == sessions[user_state[c]]
          sel == sess.selected_subjects
      IN  IF sel = {} \/ sel = Range(sess.subject_list)
          THEN ToggleAllTwice(c) = sel
          ELSE ToggleAllTwice(c) = {}

\* a partial selection in the selection stage
C8_Witness ==
  \E c \in Chats :
    /\ InStage(c, "select_subjects")
    /\ Cardinality(sessions[user_state[c]].selected_subjects) = 1
    /\ Len(sessions[user_state[c]].subject_list) = 2

\* C9: once proceed has been pressed, the set of subjects carried forward
\* to the later stages is non-empty.
C9_ProceedCarriesNonEmpty ==
  \A c \in Chats :
    ( /\ user_state[c] # 0
      /\ sessions[user_state[c]].stage \in
           {"await_start_index_subject", "await_resolution", "downloading"} )
    => sessions[user_state[c]].selected_subjects # {}

\* C10: for a subject with N flattened items and start index k >= 1 (the
\* value the pipeline read from the record) the sub-list the pipeline
\* processes has max(0, N-k+1) items and is the suffix of the flattened list
\* from position k (the full list for k = 1); the loop of main.py visits the
\* same positions.
C10_StartIndexClipping ==
  \A t \in DOMAIN tasks :
    tasks[t].pc \in SubjectPcs =>
      LET tk == tasks[t]
          sess == sessions[tk.sid]
          subj == tk.subjects[tk.si]
          links == Flatten(sess.data, subj)
          k == tk.start_idx
          N == Len(links)
      IN  /\ k >= 1
          /\ Len(tk.to_process) = Max(0, N - k + 1)
          /\ \A i \in 1..Len(tk.to_process) :
               tk.to_process[i] = links[k + i - 1]
          /\ k = 1 => tk.to_process = links
          /\ Cardinality(UploadIndices(k, N)) = Max(0, N - k + 1)
          /\ {links[idx + 1] : idx \in UploadIndices(k, N)}
               = Range(tk.to_process)

\* a subject of two items whose second item is being processed from start
\* index 2
C10_Witness ==
  \E t \in DOMAIN tasks :
    /\ tasks[t].pc = "verify"
    /\ tasks[t].start_idx = 2
    /\ tasks[t].ii = 1
    /\ Len(tasks[t].to_process) = 1
    /\ Len(Flatten(sessions[tasks[t].sid].data,
                   tasks[t].subjects[tasks[t].si])) = 2

\* C11: in every reachable state every recorded start index k of a subject
\* with N flattened items satisfies 1 <= k <= N + 1.
C11_StartIndexInRange ==
  \A c \in Chats :
    user_state[c] # 0 =>
      LET sess == sessions[user_state[c]] IN
      \A subj \in DOMAIN sess.start_indexes :
        /\ 1 <= sess.start_indexes[subj]
        /\ sess.start_indexes[subj] <= Len(Flatten(sess.data, subj)) + 1

\* C12: a custom entry that is non-numeric, less than 1 or greater than the
\* subject's number of items is recorded as start index 1 (in the batch
\* handler, while it tidies up after the entry, and in main.py's upload).
C12_BadEntryCoercedToOne ==
  \A h \in HandlerIds :
    ( /\ handlers[h].kind = "startidx_custom"
      /\ handlers[h].pc = "cleanup"
      /\ ~handlers[h].detached )
    => LET sess == sessions[handlers[h].sid]
           text == handlers[h].resp
           N == Len(Flatten(sess.data, handlers[h].cur))
           good == IsNumeric(text) /\ IntOf(text) >= 1 /\ IntOf(text) <= N
       IN  ~good =>
             /\ UploadStartIndex(text, N) = 1
             /\ handlers[h].cur \in DOMAIN sess.start_indexes
             /\ sess.start_indexes[handlers[h].cur] = 1
             /\ sess.stage = "await_start_index_subject"

\* C13: the subjects a proceed press carries to the start-index prompts
\* are listed in catalogue order or in the order in which the operator
\* selected them.
C13_PromptOrder ==
  [][\A h \in HandlerIds :
       (handlers[h].kind # "proceed" /\ handlers'[h].kind = "proceed") =>
         LET sess == sessions[handlers'[h].sid]
             subjects == handlers'[h].subjects
         IN  \/ subjects = Restrict(sess.subject_list, Range(subjects))
             \/ subjects = sess.picked]_vars

\* the place of a stage on the path inspect -> select_subjects ->
\* await_start_index_subject -> await_resolution -> downloading
StageRank(stage) ==
  CASE stage = "inspect" -> 1
    [] stage = "select_subjects" -> 2
    [] stage = "await_start_index_subject" -> 3
    [] stage = "await_resolution" -> 4
    [] stage = "downloading" -> 5
    [] OTHER -> 6

\* C14: within one session the stage only moves forward, one stage at a
\* time: every step that changes the stage of a session dict moves it to the
\* next stage of the path (or the dict is dropped).
C14_StageMonotone ==
  [][\A i \in DOMAIN sessions :
       (i \in DOMAIN sessions' /\ sessions'[i].stage # sessions[i].stage) =>
         \/ sessions'[i].stage = "freed"
         \/ StageRank(sessions'[i].stage) = StageRank(sessions[i].stage) + 1
    ]_vars

C16_FailedUploadLeavesNoRecord ==
  \A c \in Chats :
    ( /\ user_state[c] # 0
      /\ sessions[user_state[c]].stage = "inspect"
      /\ parse_file(ScriptText(sessions[user_state[c]].batch_name)) # <<>> )
    => \E h \in HandlerIds : /\ handlers[h].kind = "script"
                             /\ handlers[h].sid = user_state[c]

(***************************************************************************)
(* The parser.                                                             *)
(***************************************************************************)
\* the items of a catalogue: (subject, chapter, category, label, url)
CatalogueItems(data) ==
  UNION { UNION { { <<data[i].name, data[i].chapters[j].name, "Lectures",
                      x[1], x[2]>> : x \in Range(data[i].chapters[j].Lectures) }
                  \cup
                  { <<data[i].name, data[i].chapters[j].name, "DPP Videos",
                      x[1], x[2]>> : x \in Range(data[i].chapters[j].DPP) }
                  : j \in DOMAIN data[i].chapters }
          : i \in DOMAIN data }

DeclaredAt(lines, u, subj, chap) ==
  \E i, j \in 1..(u - 1) :
    /\ i < j
    /\ lines[i] = SubjLine(subj)
    /\ lines[j] = ChapLine(chap)
    /\ \A k \in (i + 1)..(u - 1) : lines[k].kind # "subject"
    /\ \A k \in (j + 1)..(u - 1) : lines[k].kind # "chapter"

\* C18: a line changes the catalogue only if it is a URL line read while the
\* current subject and chapter are set and a label is pending; and every item
\* of the catalogue sits under the subject and chapter declared before its
\* URL line, with no subject marker between the chapter marker and the URL.
C18_UrlNeedsContext ==
  [][ /\ parse'.st.data # parse.st.data
         => /\ parse'.lines[Len(parse'.lines)].kind = "m3u8"
            /\ parse.st.current_subject # ""
            /\ parse.st.current_chapter # ""
            /\ parse.st.last_lecture # 0 \/ parse.st.last_dpp_video # 0
      /\ \A x \in CatalogueItems(parse'.st.data) :
           /\ x[5] \in DOMAIN parse'.lines
           /\ parse'.lines[x[5]].kind = "m3u8"
           /\ DeclaredAt(parse'.lines, x[5], x[1], x[2]) ]_vars

\* one URL line was accepted and a later one, read with a label pending but
\* after a subject marker reset the chapter, was dropped
C18_Witness ==
  \E u, v \in DOMAIN parse.lines :
    /\ u < v
    /\ parse.lines[u].kind = "m3u8"
    /\ parse.lines[v].kind = "m3u8"
    /\ \E x \in CatalogueItems(parse.st.data) : x[5] = u
    /\ \A x \in CatalogueItems(parse.st.data) : x[5] # v
    /\ v > 2
    /\ parse.lines[v - 1].kind = "set"
    /\ parse.lines[v - 2].kind = "subject"

\* the variable name whose value labels the items of a category
FamilyOf(cat) == IF cat = "Lectures" THEN "lecture" ELSE "dpp_video"

\* the item lists of a chapter of a catalogue (empty when it has none)
ItemList(data, subj, chap, cat) ==
  LET i == IndexOfName(data, subj) IN
  IF i = 0 THEN <<>>
  ELSE LET j == IndexOfName(data[i].chapters, chap) IN
       IF j = 0 THEN <<>>
       ELSE IF cat = "Lectures" THEN data[i].chapters[j].Lectures
            ELSE data[i].chapters[j].DPP

\* C19: a URL line that changes the catalogue appends exactly one item, to
\* the category of the label it consumes (the lecture label first), and clears
\* that slot and no other; a label line overwrites its slot only; so every
\* item carries the latest label of its family set before its URL, and no
\* other URL of that family was accepted in between.
C19_OneSlotPerFamily ==
  [][ LET st    == parse.st
          st2   == parse'.st
          line  == parse'.lines[Len(parse'.lines)]
          old   == CatalogueItems(st.data)
          new   == CatalogueItems(st2.data)
          cat   == IF st.last_lecture # 0 THEN "Lectures" ELSE "DPP Videos"
          label == IF st.last_lecture # 0 THEN st.last_lecture
                   ELSE st.last_dpp_video
          x     == <<st.current_subject, st.current_chapter, cat, label,
                     line.url>>
      IN  /\ st2.data # st.data
             => /\ new = old \cup {x}
                /\ x \notin old
                /\ ItemList(st2.data, x[1], x[2], cat)
                     = Append(ItemList(st.data, x[1], x[2], cat),
                              <<label, line.url>>)
                /\ \A y \in old :
                     ItemList(st2.data, y[1], y[2], y[3])
                       = IF <<y[1], y[2], y[3]>> = <<x[1], x[2], cat>>
                         THEN Append(ItemList(st.data, y[1], y[2], y[3]),
                                     <<label, line.url>>)
                         ELSE ItemList(st.data, y[1], y[2], y[3])
                /\ IF cat = "Lectures"
                   THEN /\ st2.last_lecture = 0
                        /\ st2.last_dpp_video = st.last_dpp_video
                   ELSE /\ st2.last_dpp_video = 0
                        /\ st2.last_lecture = st.last_lecture
          /\ line.kind = "set"
             => /\ line.name = "lecture"
                   => /\ st2.last_lecture = line.val
                      /\ st2.last_dpp_video = st.last_dpp_video
                /\ line.name = "dpp_video"
                   => /\ st2.last_dpp_video = line.val
                      /\ st2.last_lecture = st.last_lecture
          /\ (line.kind = "m3u8" /\ st2.data = st.data)
             => /\ st2.last_lecture = st.last_lecture
                /\ st2.last_dpp_video = st.last_dpp_video
          /\ \A y \in new :
               \E i \in 1..(y[5] - 1) :
                 /\ parse'.lines[i] = SetLine(FamilyOf(y[3]), y[4])
                 /\ \A k \in (i + 1)..(y[5] - 1) :
                      ~ ( /\ parse'.lines[k].kind = "set"
                          /\ parse'.lines[k].name = FamilyOf(y[3]) )
                 /\ \A z \in new :
                      z[3] = y[3] => ~ (i < z[5] /\ z[5] < y[5]) ]_vars

\* a lecture label and a practice label were pending together: the first URL
\* line took the lecture label, the next one the practice label
C19_Witness ==
  \E u \in DOMAIN parse.lines :
    /\ u > 2
    /\ u + 1 \in DOMAIN parse.lines
    /\ parse.lines[u - 1].kind = "set"
    /\ parse.lines[u - 2].kind = "set"
    /\ \E x, y \in CatalogueItems(parse.st.data) :
         /\ x[5] = u /\ x[3] = "Lectures"
         /\ y[5] = u + 1 /\ y[3] = "DPP Videos"

\* C37: a subject or chapter marker, and a URL line that is dropped, leave
\* both pending labels (and the catalogue) as they are; so every item carries
\* the label that was pending for its slot when its URL line was read,
\* whatever markers and dropped URL lines lie between the label line and the
\* URL line: no URL was accepted in between (but for a lecture that went
\* before a practice video), and the item sits under the subject and chapter
\* in force at its URL line.
C37_MarkersKeepLabels ==
  [][ LET st   == parse.st
          st2  == parse'.st
          line == parse'.lines[Len(parse'.lines)]
      IN  /\ line.kind \in {"subject", "chapter"}
               => /\ st2.last_lecture = st.last_lecture
                  /\ st2.last_dpp_video = st.last_dpp_video
                  /\ st2.data = st.data
          /\ ( /\ line.kind = "m3u8"
               /\ \/ st.current_subject = ""
                  \/ st.current_chapter = "" )
               => /\ st2.last_lecture = st.last_lecture
                  /\ st2.last_dpp_video = st.last_dpp_video
                  /\ st2.data = st.data
          /\ st2.data # st.data
               => LET u == Len(parse'.lines)
                      cat == IF st.last_lecture # 0 THEN "Lectures"
                             ELSE "DPP Videos"
                      label == IF st.last_lecture # 0 THEN st.last_lecture
                               ELSE st.last_dpp_video
                  IN  /\ <<st2.current_subject, st2.current_chapter, cat,
                            label, u>> \in CatalogueItems(st2.data)
                      /\ \E i \in 1..(u - 1) :
                           /\ parse.lines[i] = SetLine(FamilyOf(cat), label)
                           /\ \A k \in (i + 1)..(u - 1) :
                                /\ ~ ( /\ parse.lines[k].kind = "set"
                                       /\ parse.lines[k].name = FamilyOf(cat) )
                                /\ \A z \in CatalogueItems(st.data) :
                                     z[5] = k => /\ cat = "DPP Videos"
                                                 /\ z[3] = "Lectures" ]_vars

\* a label was set, the URL line after it was dropped for want of a chapter,
\* a chapter marker followed, and the next URL line was accepted with the
\* label
C37_Witness ==
  \E u \in DOMAIN parse.lines :
    /\ u > 3
    /\ parse.lines[u - 3].kind = "set"
    /\ parse.lines[u - 2].kind = "m3u8"
    /\ parse.lines[u - 1].kind = "chapter"
    /\ \A x \in CatalogueItems(parse.st.data) : x[5] # u - 2
    /\ \E x \in CatalogueItems(parse.st.data) :
         x[5] = u /\ x[4] = parse.lines[u - 3].val

(***************************************************************************)
(* The flattening.                                                         *)
(***************************************************************************)
\* where each item of subject number i stands in the catalogue: its chapter
\* (by position), its category (lectures first), its label and its place in
\* the list of its category
ItemKeys(data, i) ==
  UNION { LET ch == data[i].chapters[j] IN
          { [url |-> ch.Lectures[n][2], chap |-> j, cat |-> 0,
             label |-> ch.Lectures[n][1], pos |-> n,
             prefix |-> ChapterPrefix(ch.name)] : n \in DOMAIN ch.Lectures }
          \cup
          { [url |-> ch.DPP[n][2], chap |-> j, cat |-> 1,
             label |-> ch.DPP[n][1], pos |-> n,
             prefix |-> ChapterPrefix(ch.name)] : n \in DOMAIN ch.DPP }
          : j \in DOMAIN data[i].chapters }

\* the order of the flattened list: by chapter, category, label and, for
\* equal labels, place in the script
Before(a, b) ==
  \/ a.chap < b.chap
  \/ /\ a.chap = b.chap
     /\ \/ a.cat < b.cat
        \/ /\ a.cat = b.cat
           /\ \/ a.label < b.label
              \/ a.label = b.label /\ a.pos < b.pos

\* C20: the flattening of a subject lists each of its items once, chapters
\* in catalogue order and, within a chapter, lectures by label followed by
\* practice videos by label; the order is fixed by the catalogue alone, so
\* index k always denotes the same item.
C20_FlattenOrder ==
  \A i \in DOMAIN parse.st.data :
    LET data == parse.st.data
        flat == Flatten(data, data[i].name)
        keys == ItemKeys(data, i)
    IN  /\ Len(flat) = Cardinality(keys)
        /\ \A p \in DOMAIN flat :
             \E k \in keys : /\ k.url = flat[p].url
                             /\ k.label = flat[p].label
                             /\ k.prefix = flat[p].prefix
        /\ \A p, q \in DOMAIN flat :
             p < q => \E a, b \in keys : /\ a.url = flat[p].url
                                         /\ b.url = flat[q].url
                                         /\ Before(a, b)

\* the flattening moved a lecture in front of a practice video that the
\* script lists earlier in the same chapter
C20_Witness ==
  \E i \in DOMAIN parse.st.data :
    LET flat == Flatten(parse.st.data, parse.st.data[i].name)
        keys == ItemKeys(parse.st.data, i)
    IN  \E p, q \in DOMAIN flat :
          /\ p < q
          /\ flat[p].url > flat[q].url
          /\ \E a, b \in keys : /\ a.url = flat[p].url /\ a.cat = 0
                                 /\ b.url = flat[q].url /\ b.cat = 1
                                 /\ a.chap = b.chap

(***************************************************************************)
(* The summaries of the pipeline.                                          *)
(***************************************************************************)
\* task t is running before and after the step
Runs(t) ==
  /\ t \in DOMAIN tasks'
  /\ tasks[t].pc # "done"
  /\ tasks'[t].pc # "done"

\* C21: the total that the batch summary reports starts at zero and grows by
\* one exactly on the step on which an item of the processed sub-list has
\* gone through download and upload and send_vid returns; an item that
\* failed, and an item before the start index, never adds to it.
C21_TotalCountsCompleted ==
  [][ \A t \in DOMAIN tasks :
        /\ (t \in DOMAIN tasks' /\ tasks'[t].pc \in {"start", "thumb"})
             => tasks'[t].total_uploaded = 0
        /\ Runs(t) =>
             /\ tasks'[t].total_uploaded =
                  IF tasks[t].pc = "updel" /\ tasks'[t].pc = "sleep"
                  THEN tasks[t].total_uploaded + 1
                  ELSE tasks[t].total_uploaded
             /\ (tasks[t].pc = "updel" /\ tasks'[t].pc = "sleep")
                  => /\ tasks[t].ii \in DOMAIN tasks[t].to_process
                     /\ tasks[t].exc = ""
             /\ (tasks'[t].pc = "updel" /\ tasks[t].pc # "updel")
                  => tasks[t].pc \in {"upvid", "updoc"}
             /\ (tasks'[t].pc = "upvid" /\ tasks[t].pc # "upvid")
                  => tasks[t].pc = "infodel"
             /\ (tasks'[t].pc = "infodel" /\ tasks[t].pc # "infodel")
                  => tasks[t].pc = "download" ]_vars

\* the batch summary of a plan of two subjects (three items) is about to
\* report two transfers: one item failed or was skipped
C21_Witness ==
  \E t \in DOMAIN tasks :
    /\ tasks[t].pc = "batchmsg"
    /\ Len(tasks[t].subjects) = 2
    /\ tasks[t].total_uploaded = 2

\* C22: the subject loop leaves a subject only through its completion
\* summary, once per subject and in plan order, when the items of the clipped
\* sub-list are exhausted; the count of the summary is max(0, N-k+1), zero
\* included; the batch summary follows the summary of the last subject (or
\* an empty plan).
C22_SubjectSummary ==
  [][ \A t \in DOMAIN tasks :
        Runs(t) =>
          LET tk == tasks[t]
              tk2 == tasks'[t]
          IN  /\ tk2.si # tk.si
                   => \/ tk.pc = "thumb" /\ tk2.si = 1
                      \/ tk.pc = "subjmsg" /\ tk2.si = tk.si + 1
              /\ (tk2.pc = "subjmsg" /\ tk.pc # "subjmsg")
                   => /\ tk2.si = tk.si \/ tk.pc = "thumb"
                      /\ tk2.ii = Len(tk2.to_process) + 1
                      /\ LET N == Len(Flatten(sessions'[tk2.sid].data,
                                              tk2.subjects[tk2.si]))
                             k == tk2.start_idx
                         IN  Len(tk2.to_process) = Max(0, N - k + 1)
              /\ (tk2.pc = "batchmsg" /\ tk.pc # "batchmsg")
                   => \/ tk.pc = "subjmsg" /\ tk.si = Len(tk.subjects)
                      \/ tk.pc = "thumb" /\ tk.subjects = <<>>
              /\ (tk.pc = "subjmsg" /\ tk2.pc # "subjmsg")
                   => IF tk.si = Len(tk.subjects)
                      THEN tk2.pc = "batchmsg"
                      ELSE tk2.pc \in {"subjmsg", "verify", "cancelmsg"}
              /\ (tk.pc = "subjmsg" /\ tk2.pc = "subjmsg")
                   => tk2.si \in {tk.si, tk.si + 1} ]_vars

\* the summary of a subject of two items is due with a count of zero: the
\* start index is past the last item
C22_Witness ==
  \E t \in DOMAIN tasks :
    /\ tasks[t].pc = "subjmsg"
    /\ tasks[t].to_process = <<>>
    /\ tasks[t].start_idx > 1
    /\ Len(Flatten(sessions[tasks[t].sid].data,
                   tasks[t].subjects[tasks[t].si])) = 2

(***************************************************************************)
(* Rejected uploads.                                                       *)
(***************************************************************************)
\* C28: the handling of an upload whose name has no accepted extension, from
\* its start to the end of its reply, changes neither the session registry
\* nor the sessions nor the task registry; and every session comes from an
\* upload with an accepted name.
C28_RejectionLeavesRegistry ==
  [][ /\ (\E h \in HandlerIds :
            \/ handlers[h].kind # "reject" /\ handlers'[h].kind = "reject"
            \/ handlers[h].kind = "reject" /\ handlers'[h].kind # "reject")
         => /\ user_state' = user_state
            /\ sessions' = sessions
            /\ download_tasks' = download_tasks
            /\ tasks' = tasks
      /\ \A i \in DOMAIN sessions' :
           sessions'[i].stage # "freed"
             => AcceptedName(FileName(sessions'[i].batch_name)) ]_vars

\* a rejection is being answered in a conversation whose session is in the
\* selection stage
C28_Witness ==
  \E h \in HandlerIds :
    /\ handlers[h].kind = "reject"
    /\ user_state[handlers[h].chat] # 0
    /\ sessions[user_state[handlers[h].chat]].stage = "select_subjects"

\* C35: the handling of a button press that has no branch in the stage the
\* session is in, or that comes from a conversation without a session, from
\* its start to the end of its answer, changes neither the session registry
\* nor any session field, and creates no pipeline task.
C35_StrayPressChangesNothing ==
  [][ (\E h \in HandlerIds :
         \/ handlers[h].kind # "ignored" /\ handlers'[h].kind = "ignored"
         \/ handlers[h].kind = "ignored" /\ handlers'[h].kind # "ignored")
      => /\ user_state' = user_state
         /\ sessions' = sessions
         /\ download_tasks' = download_tasks
         /\ tasks' = tasks ]_vars

\* a stray press is being answered in a conversation whose session waits for
\* a resolution with one of its two subjects selected
C35_Witness ==
  \E h \in HandlerIds :
    /\ handlers[h].kind = "ignored"
    /\ InStage(handlers[h].chat, "await_resolution")
    /\ Cardinality(
         sessions[user_state[handlers[h].chat]].selected_subjects) = 1

(***************************************************************************)
(* Errors and the work plan of a running pipeline.                         *)
(***************************************************************************)
\* C29: no error raised while an item is processed, the error raised by the
\* item's failure notice included, ends the run: a task that is inside the
\* item loop ends there only by cancellation.
C29_ItemErrorsNeverEndRun ==
  [][ \A t \in DOMAIN tasks :
        ( /\ t \in DOMAIN tasks'
          /\ tasks[t].pc \in ItemPcs \cup {"sleep", "errnotify"}
          /\ tasks'[t].pc = "done" )
        => tasks'[t].exc = "cancelled" ]_vars

\* the subjects, the resolution and the start indexes that task tk works
\* with, read from its locals once it has them and from the dicts it refers
\* to otherwise
PlanOf(tk, ss) ==
  LET sess == ss[tk.sid]
      subjects == IF tk.pc = "start" THEN sess.selected_subjects
                  ELSE Range(tk.subjects)
      indexes == IF tk.own_idx THEN tk.start_indexes ELSE sess.start_indexes
  IN  [subjects |-> subjects,
       res |-> IF tk.pc = "start" THEN sess.resolution ELSE tk.res,
       start |-> [subj \in subjects |-> StartIndexOf(indexes, subj)]]

\* C30: while a pipeline runs, no step changes the subjects, the start
\* indexes or the resolution it works with.
C30_PlanImmutable ==
  [][ \A t \in DOMAIN tasks :
        Runs(t) => PlanOf(tasks'[t], sessions') = PlanOf(tasks[t], sessions)
    ]_vars

\* C32: the exit of a pipeline run removes only the registry entries of its
\* own session: a newer session record of the same conversation, and the task
\* entry of a newer run, are still registered after the exit.
C32_ExitKeepsNewerSession ==
  [][ \A t \in DOMAIN tasks :
        ( /\ t \in DOMAIN tasks'
          /\ tasks[t].pc # "done"
          /\ tasks'[t].pc = "done" )
        => LET c == tasks[t].chat IN
           /\ user_state[c] # tasks[t].sid => user_state'[c] = user_state[c]
           /\ download_tasks[c] # t
                => download_tasks'[c] = download_tasks[c] ]_vars

\* C33: under any interleaving of start-index presses no handler reads the
\* head of an empty subject list: while the session waits for a start index
\* and a press can be delivered, a subject is left to be answered for, and a
\* handler that tidies up after a typed index still has its subject to remove.
C33_NoHeadOfEmptyList ==
  /\ \A c \in Chats, h \in HandlerIds :
       (InStage(c, "await_start_index_subject") /\ FreeSlot(h))
         => sessions[user_state[c]].subjects_iter # <<>>
  /\ \A h \in HandlerIds :
       (handlers[h].kind = "startidx_custom" /\ handlers[h].pc = "cleanup")
         => SubjIter(h) # <<>>

\* C34: the cancel flag of every session is false in every reachable state,
\* and no pipeline is at the "operation cancelled" notice of the item loop.
C34_CancelFlagNeverSet ==
  /\ \A i \in DOMAIN sessions : sessions[i].cancel = FALSE
  /\ \A t \in DOMAIN tasks : tasks[t].pc # "cancelmsg"

\* a pipeline has tested the flag at the top of the item loop for its second
\* item, while a stop command is being answered
C34_Witness ==
  \E t \in DOMAIN tasks :
    /\ tasks[t].pc = "verify"
    /\ tasks[t].ii = 2
    /\ \E h \in HandlerIds : handlers[h].kind = "stop"

\* C36: when every call eventually returns or raises, every pipeline run
\* ends (or the process is replaced); the subject cursor and, within a
\* subject, the item cursor only move forward, every new attempt is for a
\* later position than the one before, and the step that ends the run leaves
\* no registry entry for the run's session.
C36_RunTerminates ==
  /\ [][ \A t \in DOMAIN tasks :
           /\ Runs(t) =>
                LET tk == tasks[t]
                    tk2 == tasks'[t]
                IN  /\ tk2.si >= tk.si
                    /\ tk2.si = tk.si => tk2.ii >= tk.ii
                    /\ (tk2.pc = "verify" /\ tk.pc # "verify")
                         => /\ tk2.si > tk.si \/ tk2.ii > tk.ii
                            /\ tk2.ii \in DOMAIN tk2.to_process
                    /\ (tk.pc \in ItemPcs /\ tk2.pc \in ItemPcs)
                         => tk2.si = tk.si /\ tk2.ii = tk.ii
           /\ ( /\ t \in DOMAIN tasks'
                /\ tasks[t].pc # "done"
                /\ tasks'[t].pc = "done" )
              => user_state'[tasks[t].chat] # tasks[t].sid ]_vars
  /\ \A t \in 1..MaxTasks :
       (t \in DOMAIN tasks /\ tasks[t].pc # "done")
         ~> (t \notin DOMAIN tasks \/ tasks[t].pc = "done")

\* a run over both subjects is at its last call, the notes document, after
\* every item went through: all but one were uploaded
C36_Witness ==
  \E t \in DOMAIN tasks :
    /\ tasks[t].pc = "notes"
    /\ Len(tasks[t].subjects) = 2
    /\ tasks[t].total_uploaded = MaxLectures

(***************************************************************************)
(* The default thumbnail.                                                  *)
(***************************************************************************)
\* C27: the thumbnail is fetched at most once, and every call that returned
\* the path returned it while the file was there and completely written.
C27_ThumbFetchedOnceAndWhole ==
  /\ thumb.fetches <= 1
  /\ \A k \in Callers : thumb.pc[k] = "returned" => thumb.got[k] = "whole"

(***************************************************************************)
(* The progress throttle.                                                  *)
(***************************************************************************)
\* C23: an edit is requested only when at least TimeBetween seconds have
\* passed since the latest edit requested by any transfer of the process.
C23_ProgressThrottle ==
  [][ progress'.emits # progress.emits
        => /\ progress'.emits = progress.emits + 1
           /\ progress'.last_emit = progress.now
           /\ progress.emits > 0
                => progress.now - progress.last_emit >= TimeBetween
    ]_vars

\* the edits of two conversations are in flight at once: the second was
\* requested while the first had not returned
C23_Witness ==
  /\ progress.emits = 2
  /\ \A c \in Chats : progress.pc[c] = "edit"

\* C24: an edit that raised the slow-down signal never makes progress_bar
\* raise: the call stays in its sleep until the mandated time has passed and
\* then returns without requesting the edit again.
C24_FloodWaitSwallowed ==
  [][ \A c \in Chats :
        /\ progress'.pc[c] = "raised" => progress'.exc[c] = "error"
        /\ (progress.pc[c] = "sleep" /\ progress'.pc[c] # "sleep")
             => /\ progress'.pc[c] = "idle"
                /\ progress.now >= progress.wake[c]
                /\ progress'.emits = progress.emits
        /\ (progress.pc[c] = "edit" /\ progress'.pc[c] = "sleep")
             => progress'.wake[c] - progress.now \in FloodWaits ]_vars

\* a call has returned from a sleep of four seconds
C24_Witness ==
  \E c \in Chats :
    /\ progress.pc[c] = "idle"
    /\ progress.exc[c] = "flood"
    /\ progress.wake[c] - progress.last_emit >= 4
    /\ progress.now >= progress.wake[c]

\* C25: while the call of one conversation waits in its backoff sleep, the
\* call of another conversation that waits for its edit can take its step.
C25_WaitBlocksNobody ==
  \A c, d \in Chats :
    ( /\ c # d
      /\ progress.pc[c] = "sleep"
      /\ progress.pc[d] = "edit" )
    => ENABLED ProgressEdit(d, "ok", 1)

\* C31: the progress update made when the download engine reports that an
\* item is finished is always emitted, however recently the previous update
\* was emitted.
C31_FinalUpdateForced ==
  \A c \in Chats : progress.final[c] # "dropped"

(***************************************************************************)
(* Conversations side by side.                                             *)
(***************************************************************************)
\* C26: the pipelines of two conversations do not touch each other's working
\* files: what a conversation uploads is what it downloaded, and a file
\* that holds the download of one conversation is changed or removed only by
\* a step of that conversation.
C26_NoSharedWorkingFiles ==
  [][ /\ \A c \in Chats : files'.uploaded[c] \in {"none", c}
      /\ \A path \in WorkPaths :
           ( /\ files.disk[path] # "none"
             /\ files'.disk[path] # files.disk[path] )
           => files'.pc[files.disk[path]] # files.pc[files.disk[path]]
    ]_vars

====
